---- MODULE Spec2Model ----
(* Model of main.py: the /projects listing, the /projects and /contact      *)
(* creation handlers, the seeding of the "projects" collection and the      *)
(* serialize_doc codec, over a document store shared by concurrent requests. *)
EXTENDS Integers, Sequences, FiniteSets, TLC

(***************************************************************************)
(* Bounds of the model.                                                    *)
(***************************************************************************)
\* total number of requests served in one behaviour
MaxRequests == 2

\* the instants the clock shows, in order
Instants == {0, 1}

\* request slots the server runs concurrently, in the order they are taken
Slots == <<"r1", "r2">>

Procs == {Slots[i] : i \in 1..Len(Slots)}

(***************************************************************************)
(* Python values.  Every optional value carries its type in field t.       *)
(* A str that the code parses is a sequence of one-character strings.      *)
(***************************************************************************)
None == [t |-> "None"]
PyStr(s) == [t |-> "str", v |-> s]
PyList(s) == [t |-> "list", v |-> s]
DateTime(n) == [t |-> "datetime", v |-> n]
ObjectId(n) == [t |-> "ObjectId", v |-> n]

Range(s) == {s[i] : i \in 1..Len(s)}

RECURSIVE Reverse(_)
Reverse(s) == IF Len(s) = 0 THEN <<>> ELSE Append(Reverse(Tail(s)), Head(s))

(***************************************************************************)
(* str(ObjectId) and ObjectId(str): 24 lower-case hexadecimal digits.      *)
(***************************************************************************)
HexDigits == <<"0", "1", "2", "3", "4", "5", "6", "7",
               "8", "9", "a", "b", "c", "d", "e", "f">>

\* the w low hexadecimal digits of n, most significant first
RECURSIVE Hex(_, _)
Hex(n, w) ==
    IF w = 0 THEN <<>>
    ELSE IF n = 0 THEN [i \in 1..w |-> "0"]
    ELSE Append(Hex(n \div 16, w - 1), HexDigits[(n % 16) + 1])

\* str(oid)
StrObjectId(oid) == PyStr(Hex(oid.v, 24))

HexVal(c) == (CHOOSE i \in 1..16 : HexDigits[i] = c) - 1

RECURSIVE HexNum(_)
HexNum(s) ==
    IF Len(s) = 0 THEN 0
    ELSE 16 * HexNum(SubSeq(s, 1, Len(s) - 1)) + HexVal(s[Len(s)])

\* ObjectId(s) for a str s of 24 hexadecimal digits
ParseObjectId(s) == ObjectId(HexNum(s.v))

(***************************************************************************)
(* datetime.isoformat(): a str, no longer a datetime.                      *)
(***************************************************************************)
isoformat(dt) == [t |-> "str", iso |-> dt.v]

(***************************************************************************)
(* int(x) as line 150 uses it: x is the int 0 (year absent), None or a str.*)
(* int(str) strips white space, takes an optional sign, then decimal       *)
(* digits with single underscores between digits.  The result is           *)
(* [ok |-> TRUE, v |-> n], or [ok |-> FALSE] when int() raises.            *)
(***************************************************************************)
\* A character past U+00FF is written as Python writes it, "\\u0663" for
\* ARABIC-INDIC DIGIT THREE, "\\U0001d7ce" past U+FFFF.
\* The decimal digits int() accepts, those of ASCII and of the other
\* scripts of Unicode 14.0.0: DecDigits[n + 1] holds the digits of value n.
DecDigits ==
   << {"0", "\\u0660", "\\u06f0", "\\u07c0", "\\u0966", "\\u09e6",
       "\\u0a66", "\\u0ae6", "\\u0b66", "\\u0be6", "\\u0c66", "\\u0ce6",
       "\\u0d66", "\\u0de6", "\\u0e50", "\\u0ed0", "\\u0f20", "\\u1040",
       "\\u1090", "\\u17e0", "\\u1810", "\\u1946", "\\u19d0", "\\u1a80",
       "\\u1a90", "\\u1b50", "\\u1bb0", "\\u1c40", "\\u1c50", "\\ua620",
       "\\ua8d0", "\\ua900", "\\ua9d0", "\\ua9f0", "\\uaa50", "\\uabf0",
       "\\uff10", "\\U000104a0", "\\U00010d30", "\\U00011066",
       "\\U000110f0", "\\U00011136", "\\U000111d0", "\\U000112f0",
       "\\U00011450", "\\U000114d0", "\\U00011650", "\\U000116c0",
       "\\U00011730", "\\U000118e0", "\\U00011950", "\\U00011c50",
       "\\U00011d50", "\\U00011da0", "\\U00016a60", "\\U00016ac0",
       "\\U00016b50", "\\U0001d7ce", "\\U0001d7d8", "\\U0001d7e2",
       "\\U0001d7ec", "\\U0001d7f6", "\\U0001e140", "\\U0001e2f0",
       "\\U0001e950", "\\U0001fbf0"},
      {"1", "\\u0661", "\\u06f1", "\\u07c1", "\\u0967", "\\u09e7",
       "\\u0a67", "\\u0ae7", "\\u0b67", "\\u0be7", "\\u0c67", "\\u0ce7",
       "\\u0d67", "\\u0de7", "\\u0e51", "\\u0ed1", "\\u0f21", "\\u1041",
       "\\u1091", "\\u17e1", "\\u1811", "\\u1947", "\\u19d1", "\\u1a81",
       "\\u1a91", "\\u1b51", "\\u1bb1", "\\u1c41", "\\u1c51", "\\ua621",
       "\\ua8d1", "\\ua901", "\\ua9d1", "\\ua9f1", "\\uaa51", "\\uabf1",
       "\\uff11", "\\U000104a1", "\\U00010d31", "\\U00011067",
       "\\U000110f1", "\\U00011137", "\\U000111d1", "\\U000112f1",
       "\\U00011451", "\\U000114d1", "\\U00011651", "\\U000116c1",
       "\\U00011731", "\\U000118e1", "\\U00011951", "\\U00011c51",
       "\\U00011d51", "\\U00011da1", "\\U00016a61", "\\U00016ac1",
       "\\U00016b51", "\\U0001d7cf", "\\U0001d7d9", "\\U0001d7e3",
       "\\U0001d7ed", "\\U0001d7f7", "\\U0001e141", "\\U0001e2f1",
       "\\U0001e951", "\\U0001fbf1"},
      {"2", "\\u0662", "\\u06f2", "\\u07c2", "\\u0968", "\\u09e8",
       "\\u0a68", "\\u0ae8", "\\u0b68", "\\u0be8", "\\u0c68", "\\u0ce8",
       "\\u0d68", "\\u0de8", "\\u0e52", "\\u0ed2", "\\u0f22", "\\u1042",
       "\\u1092", "\\u17e2", "\\u1812", "\\u1948", "\\u19d2", "\\u1a82",
       "\\u1a92", "\\u1b52", "\\u1bb2", "\\u1c42", "\\u1c52", "\\ua622",
       "\\ua8d2", "\\ua902", "\\ua9d2", "\\ua9f2", "\\uaa52", "\\uabf2",
       "\\uff12", "\\U000104a2", "\\U00010d32", "\\U00011068",
       "\\U000110f2", "\\U00011138", "\\U000111d2", "\\U000112f2",
       "\\U00011452", "\\U000114d2", "\\U00011652", "\\U000116c2",
       "\\U00011732", "\\U000118e2", "\\U00011952", "\\U00011c52",
       "\\U00011d52", "\\U00011da2", "\\U00016a62", "\\U00016ac2",
       "\\U00016b52", "\\U0001d7d0", "\\U0001d7da", "\\U0001d7e4",
       "\\U0001d7ee", "\\U0001d7f8", "\\U0001e142", "\\U0001e2f2",
       "\\U0001e952", "\\U0001fbf2"},
      {"3", "\\u0663", "\\u06f3", "\\u07c3", "\\u0969", "\\u09e9",
       "\\u0a69", "\\u0ae9", "\\u0b69", "\\u0be9", "\\u0c69", "\\u0ce9",
       "\\u0d69", "\\u0de9", "\\u0e53", "\\u0ed3", "\\u0f23", "\\u1043",
       "\\u1093", "\\u17e3", "\\u1813", "\\u1949", "\\u19d3", "\\u1a83",
       "\\u1a93", "\\u1b53", "\\u1bb3", "\\u1c43", "\\u1c53", "\\ua623",
       "\\ua8d3", "\\ua903", "\\ua9d3", "\\ua9f3", "\\uaa53", "\\uabf3",
       "\\uff13", "\\U000104a3", "\\U00010d33", "\\U00011069",
       "\\U000110f3", "\\U00011139", "\\U000111d3", "\\U000112f3",
       "\\U00011453", "\\U000114d3", "\\U00011653", "\\U000116c3",
       "\\U00011733", "\\U000118e3", "\\U00011953", "\\U00011c53",
       "\\U00011d53", "\\U00011da3", "\\U00016a63", "\\U00016ac3",
       "\\U00016b53", "\\U0001d7d1", "\\U0001d7db", "\\U0001d7e5",
       "\\U0001d7ef", "\\U0001d7f9", "\\U0001e143", "\\U0001e2f3",
       "\\U0001e953", "\\U0001fbf3"},
      {"4", "\\u0664", "\\u06f4", "\\u07c4", "\\u096a", "\\u09ea",
       "\\u0a6a", "\\u0aea", "\\u0b6a", "\\u0bea", "\\u0c6a", "\\u0cea",
       "\\u0d6a", "\\u0dea", "\\u0e54", "\\u0ed4", "\\u0f24", "\\u1044",
       "\\u1094", "\\u17e4", "\\u1814", "\\u194a", "\\u19d4", "\\u1a84",
       "\\u1a94", "\\u1b54", "\\u1bb4", "\\u1c44", "\\u1c54", "\\ua624",
       "\\ua8d4", "\\ua904", "\\ua9d4", "\\ua9f4", "\\uaa54", "\\uabf4",
       "\\uff14", "\\U000104a4", "\\U00010d34", "\\U0001106a",
       "\\U000110f4", "\\U0001113a", "\\U000111d4", "\\U000112f4",
       "\\U00011454", "\\U000114d4", "\\U00011654", "\\U000116c4",
       "\\U00011734", "\\U000118e4", "\\U00011954", "\\U00011c54",
       "\\U00011d54", "\\U00011da4", "\\U00016a64", "\\U00016ac4",
       "\\U00016b54", "\\U0001d7d2", "\\U0001d7dc", "\\U0001d7e6",
       "\\U0001d7f0", "\\U0001d7fa", "\\U0001e144", "\\U0001e2f4",
       "\\U0001e954", "\\U0001fbf4"},
      {"5", "\\u0665", "\\u06f5", "\\u07c5", "\\u096b", "\\u09eb",
       "\\u0a6b", "\\u0aeb", "\\u0b6b", "\\u0beb", "\\u0c6b", "\\u0ceb",
       "\\u0d6b", "\\u0deb", "\\u0e55", "\\u0ed5", "\\u0f25", "\\u1045",
       "\\u1095", "\\u17e5", "\\u1815", "\\u194b", "\\u19d5", "\\u1a85",
       "\\u1a95", "\\u1b55", "\\u1bb5", "\\u1c45", "\\u1c55", "\\ua625",
       "\\ua8d5", "\\ua905", "\\ua9d5", "\\ua9f5", "\\uaa55", "\\uabf5",
       "\\uff15", "\\U000104a5", "\\U00010d35", "\\U0001106b",
       "\\U000110f5", "\\U0001113b", "\\U000111d5", "\\U000112f5",
       "\\U00011455", "\\U000114d5", "\\U00011655", "\\U000116c5",
       "\\U00011735", "\\U000118e5", "\\U00011955", "\\U00011c55",
       "\\U00011d55", "\\U00011da5", "\\U00016a65", "\\U00016ac5",
       "\\U00016b55", "\\U0001d7d3", "\\U0001d7dd", "\\U0001d7e7",
       "\\U0001d7f1", "\\U0001d7fb", "\\U0001e145", "\\U0001e2f5",
       "\\U0001e955", "\\U0001fbf5"},
      {"6", "\\u0666", "\\u06f6", "\\u07c6", "\\u096c", "\\u09ec",
       "\\u0a6c", "\\u0aec", "\\u0b6c", "\\u0bec", "\\u0c6c", "\\u0cec",
       "\\u0d6c", "\\u0dec", "\\u0e56", "\\u0ed6", "\\u0f26", "\\u1046",
       "\\u1096", "\\u17e6", "\\u1816", "\\u194c", "\\u19d6", "\\u1a86",
       "\\u1a96", "\\u1b56", "\\u1bb6", "\\u1c46", "\\u1c56", "\\ua626",
       "\\ua8d6", "\\ua906", "\\ua9d6", "\\ua9f6", "\\uaa56", "\\uabf6",
       "\\uff16", "\\U000104a6", "\\U00010d36", "\\U0001106c",
       "\\U000110f6", "\\U0001113c", "\\U000111d6", "\\U000112f6",
       "\\U00011456", "\\U000114d6", "\\U00011656", "\\U000116c6",
       "\\U00011736", "\\U000118e6", "\\U00011956", "\\U00011c56",
       "\\U00011d56", "\\U00011da6", "\\U00016a66", "\\U00016ac6",
       "\\U00016b56", "\\U0001d7d4", "\\U0001d7de", "\\U0001d7e8",
       "\\U0001d7f2", "\\U0001d7fc", "\\U0001e146", "\\U0001e2f6",
       "\\U0001e956", "\\U0001fbf6"},
      {"7", "\\u0667", "\\u06f7", "\\u07c7", "\\u096d", "\\u09ed",
       "\\u0a6d", "\\u0aed", "\\u0b6d", "\\u0bed", "\\u0c6d", "\\u0ced",
       "\\u0d6d", "\\u0ded", "\\u0e57", "\\u0ed7", "\\u0f27", "\\u1047",
       "\\u1097", "\\u17e7", "\\u1817", "\\u194d", "\\u19d7", "\\u1a87",
       "\\u1a97", "\\u1b57", "\\u1bb7", "\\u1c47", "\\u1c57", "\\ua627",
       "\\ua8d7", "\\ua907", "\\ua9d7", "\\ua9f7", "\\uaa57", "\\uabf7",
       "\\uff17", "\\U000104a7", "\\U00010d37", "\\U0001106d",
       "\\U000110f7", "\\U0001113d", "\\U000111d7", "\\U000112f7",
       "\\U00011457", "\\U000114d7", "\\U00011657", "\\U000116c7",
       "\\U00011737", "\\U000118e7", "\\U00011957", "\\U00011c57",
       "\\U00011d57", "\\U00011da7", "\\U00016a67", "\\U00016ac7",
       "\\U00016b57", "\\U0001d7d5", "\\U0001d7df", "\\U0001d7e9",
       "\\U0001d7f3", "\\U0001d7fd", "\\U0001e147", "\\U0001e2f7",
       "\\U0001e957", "\\U0001fbf7"},
      {"8", "\\u0668", "\\u06f8", "\\u07c8", "\\u096e", "\\u09ee",
       "\\u0a6e", "\\u0aee", "\\u0b6e", "\\u0bee", "\\u0c6e", "\\u0cee",
       "\\u0d6e", "\\u0dee", "\\u0e58", "\\u0ed8", "\\u0f28", "\\u1048",
       "\\u1098", "\\u17e8", "\\u1818", "\\u194e", "\\u19d8", "\\u1a88",
       "\\u1a98", "\\u1b58", "\\u1bb8", "\\u1c48", "\\u1c58", "\\ua628",
       "\\ua8d8", "\\ua908", "\\ua9d8", "\\ua9f8", "\\uaa58", "\\uabf8",
       "\\uff18", "\\U000104a8", "\\U00010d38", "\\U0001106e",
       "\\U000110f8", "\\U0001113e", "\\U000111d8", "\\U000112f8",
       "\\U00011458", "\\U000114d8", "\\U00011658", "\\U000116c8",
       "\\U00011738", "\\U000118e8", "\\U00011958", "\\U00011c58",
       "\\U00011d58", "\\U00011da8", "\\U00016a68", "\\U00016ac8",
       "\\U00016b58", "\\U0001d7d6", "\\U0001d7e0", "\\U0001d7ea",
       "\\U0001d7f4", "\\U0001d7fe", "\\U0001e148", "\\U0001e2f8",
       "\\U0001e958", "\\U0001fbf8"},
      {"9", "\\u0669", "\\u06f9", "\\u07c9", "\\u096f", "\\u09ef",
       "\\u0a6f", "\\u0aef", "\\u0b6f", "\\u0bef", "\\u0c6f", "\\u0cef",
       "\\u0d6f", "\\u0def", "\\u0e59", "\\u0ed9", "\\u0f29", "\\u1049",
       "\\u1099", "\\u17e9", "\\u1819", "\\u194f", "\\u19d9", "\\u1a89",
       "\\u1a99", "\\u1b59", "\\u1bb9", "\\u1c49", "\\u1c59", "\\ua629",
       "\\ua8d9", "\\ua909", "\\ua9d9", "\\ua9f9", "\\uaa59", "\\uabf9",
       "\\uff19", "\\U000104a9", "\\U00010d39", "\\U0001106f",
       "\\U000110f9", "\\U0001113f", "\\U000111d9", "\\U000112f9",
       "\\U00011459", "\\U000114d9", "\\U00011659", "\\U000116c9",
       "\\U00011739", "\\U000118e9", "\\U00011959", "\\U00011c59",
       "\\U00011d59", "\\U00011da9", "\\U00016a69", "\\U00016ac9",
       "\\U00016b59", "\\U0001d7d7", "\\U0001d7e1", "\\U0001d7eb",
       "\\U0001d7f5", "\\U0001d7ff", "\\U0001e149", "\\U0001e2f9",
       "\\U0001e959", "\\U0001fbf9"} >>

IsDigit(c) == \E n \in 1..10 : c \in DecDigits[n]

DigitVal(c) == (CHOOSE n \in 1..10 : c \in DecDigits[n]) - 1

\* the white space int() skips at both ends: of ASCII the space and the
\* characters 09 to 0D, and the white space of Unicode past ASCII
WhiteSpace ==
    {" ", "\t", "\n", "", "\f", "\r", "", " ",
     "\\u1680", "\\u2000", "\\u2001", "\\u2002", "\\u2003", "\\u2004",
     "\\u2005", "\\u2006", "\\u2007", "\\u2008", "\\u2009", "\\u200a",
     "\\u2028", "\\u2029", "\\u202f", "\\u205f", "\\u3000"}

RECURSIVE LStrip(_)
LStrip(s) == IF Len(s) > 0 /\ s[1] \in WhiteSpace THEN LStrip(Tail(s)) ELSE s

RECURSIVE RStrip(_)
RStrip(s) ==
    IF Len(s) > 0 /\ s[Len(s)] \in WhiteSpace
    THEN RStrip(SubSeq(s, 1, Len(s) - 1))
    ELSE s

Strip(s) == RStrip(LStrip(s))

\* sys.int_max_str_digits: int() refuses a str of more digits
int_max_str_digits == 4300

\* digits, with single underscores only between two digits
WellFormedDigits(s) ==
    /\ Len(s) > 0
    /\ Cardinality({i \in 1..Len(s) : s[i] # "_"}) <= int_max_str_digits
    /\ \A i \in 1..Len(s) : IsDigit(s[i]) \/ s[i] = "_"
    /\ IsDigit(s[1]) /\ IsDigit(s[Len(s)])
    /\ \A i \in 1..(Len(s) - 1) : ~(s[i] = "_" /\ s[i + 1] = "_")

RECURSIVE DigitsNum(_)
DigitsNum(s) ==
    IF Len(s) = 0 THEN 0
    ELSE IF s[Len(s)] = "_" THEN DigitsNum(SubSeq(s, 1, Len(s) - 1))
    ELSE 10 * DigitsNum(SubSeq(s, 1, Len(s) - 1)) + DigitVal(s[Len(s)])

IntOfStr(s) ==
    LET b == Strip(s)
        signed == Len(b) > 0 /\ b[1] \in {"+", "-"}
        body == IF signed THEN Tail(b) ELSE b
    IN  IF WellFormedDigits(body)
        THEN [ok |-> TRUE,
              v |-> IF signed /\ b[1] = "-" THEN 0 - DigitsNum(body)
                    ELSE DigitsNum(body)]
        ELSE [ok |-> FALSE]

\* the sort key of line 150: int(d.get("year", 0))
YearKey(d) ==
    IF "year" \notin DOMAIN d THEN [ok |-> TRUE, v |-> 0]
    ELSE IF d["year"].t = "str" THEN IntOfStr(d["year"].v)
    ELSE [ok |-> FALSE]

(***************************************************************************)
(* docs.sort(key=..., reverse=True), lines 149-152.  list.sort computes    *)
(* every key before it moves anything; a key that raises leaves the list   *)
(* as it was and the except clause swallows the error.  With reverse=True  *)
(* the list is reversed, sorted stably in ascending order and reversed     *)
(* again.                                                                  *)
(***************************************************************************)
\* the keys of the documents, in order
RECURSIVE Keys(_)
Keys(s) ==
    IF Len(s) = 0 THEN <<>>
    ELSE Append(Keys(SubSeq(s, 1, Len(s) - 1)), YearKey(s[Len(s)]))

\* x = <<key, document>> put into the ascending s behind every pair whose
\* key is not greater
InsertByKey(s, x) ==
    LET n == Cardinality({i \in 1..Len(s) : s[i][1] <= x[1]})
    IN  SubSeq(s, 1, n) \o <<x>> \o SubSeq(s, n + 1, Len(s))

RECURSIVE StableSortAsc(_)
StableSortAsc(s) ==
    IF Len(s) = 0 THEN <<>>
    ELSE InsertByKey(StableSortAsc(SubSeq(s, 1, Len(s) - 1)), s[Len(s)])

\* sort_by_year sorting in ascending order and reversing the result, which
\* turns round the documents of equal year
sort_by_year_unstable(docs) ==
    LET keys == Keys(docs)
    IN  IF \E i \in 1..Len(docs) : ~keys[i].ok
        THEN docs
        ELSE LET pairs == [i \in 1..Len(docs) |-> <<keys[i].v, docs[i]>>]
                 sorted == Reverse(StableSortAsc(pairs))
             IN  [i \in 1..Len(docs) |-> sorted[i][2]]

\* sort_by_year reversing the list before it computes the keys, so that a
\* key that raises leaves the list reversed
sort_by_year_reversed_on_error(docs) ==
    LET keys == Keys(docs)
    IN  IF \E i \in 1..Len(docs) : ~keys[i].ok
        THEN Reverse(docs)
        ELSE LET pairs == [i \in 1..Len(docs) |-> <<keys[i].v, docs[i]>>]
                 sorted == Reverse(StableSortAsc(Reverse(pairs)))
             IN  [i \in 1..Len(docs) |-> sorted[i][2]]

sort_by_year(docs) ==
    LET keys == Keys(docs)
    IN  IF \E i \in 1..Len(docs) : ~keys[i].ok
        THEN docs
        ELSE LET pairs == [i \in 1..Len(docs) |-> <<keys[i].v, docs[i]>>]
                 sorted == Reverse(StableSortAsc(Reverse(pairs)))
             IN  [i \in 1..Len(docs) |-> sorted[i][2]]

(***************************************************************************)
(* serialize_doc, lines 46-54.  The argument is a dict or, from a find_one *)
(* that found nothing, None: dict(None) raises TypeError.  The result      *)
(* gives the returned dict (ret) and the argument as the call leaves it    *)
(* (arg): line 47 copies, so the pop and the assignments touch the copy.   *)
(***************************************************************************)
\* pop_id reading d["_id"] where the code pops it
pop_id_keep(d) ==
    IF "_id" \in DOMAIN d /\ d["_id"] # None
    THEN [k \in DOMAIN d \cup {"id"} |->
            IF k = "id" THEN StrObjectId(d["_id"]) ELSE d[k]]
    ELSE d

\* lines 48-49
pop_id(d) ==
    IF "_id" \in DOMAIN d /\ d["_id"] # None
    THEN [k \in (DOMAIN d \ {"_id"}) \cup {"id"} |->
            IF k = "id" THEN StrObjectId(d["_id"]) ELSE d[k]]
    ELSE d

\* iso_fields without the conversion
iso_fields_raw(d) == d

\* lines 51-53
iso_fields(d) ==
    [k \in DOMAIN d |->
        IF k \in {"created_at", "updated_at"} /\ d[k].t = "datetime"
        THEN isoformat(d[k])
        ELSE d[k]]

\* serialize_doc taking None for an empty dict
serialize_doc_none_ok(doc) ==
    IF doc = None THEN [ret |-> <<>>, arg |-> doc]
    ELSE [ret |-> iso_fields(pop_id(doc)), arg |-> doc]

\* serialize_doc without the copy of line 47: the pop reaches the argument
serialize_doc_in_place(doc) ==
    IF doc = None THEN [exc |-> "TypeError"]
    ELSE [ret |-> iso_fields(pop_id(doc)), arg |-> pop_id(doc)]

serialize_doc(doc) ==
    IF doc = None THEN [exc |-> "TypeError"]
    ELSE [ret |-> iso_fields(pop_id(doc)), arg |-> doc]

(***************************************************************************)
(* The bootstrap records of ensure_seed_projects, lines 62-95.             *)
(***************************************************************************)
seed ==
    << [title |-> "Casa Horizonte",
        image |-> "https://images.unsplash.com/photo-1494526585095-c41746248156?q=80&w=1600&auto=format&fit=crop",
        location |-> PyStr("Monterey, CA"),
        year |-> PyStr(<<"2", "0", "2", "3">>),
        tags |-> PyList(<<"Residential", "Coastal">>),
        description |-> PyStr("A cliffside residence framing expansive Pacific views through disciplined apertures and warm concrete.")],
       [title |-> "Gallery of Light",
        image |-> "https://images.unsplash.com/photo-1487956382158-bb926046304a?q=80&w=1600&auto=format&fit=crop",
        location |-> PyStr("Santa Fe, NM"),
        year |-> PyStr(<<"2", "0", "2", "2">>),
        tags |-> PyList(<<"Cultural">>),
        description |-> PyStr("Adaptive reuse gallery washed in high desert light with calibrated roof lanterns.")],
       [title |-> "Courtyard House",
        image |-> "https://images.unsplash.com/photo-1487958449943-2429e8be8625?q=80&w=1600&auto=format&fit=crop",
        location |-> PyStr("Austin, TX"),
        year |-> PyStr(<<"2", "0", "2", "1">>),
        tags |-> PyList(<<"Residential", "Courtyard">>),
        description |-> PyStr("A quiet inward-facing plan organized around a planted court and deep overhangs.")],
       [title |-> "Cliffside Studio",
        image |-> "https://images.unsplash.com/photo-1502005229762-cf1b2da7c3f5?q=80&w=1600&auto=format&fit=crop",
        location |-> PyStr("Big Sur, CA"),
        year |-> PyStr(<<"2", "0", "2", "0">>),
        tags |-> PyList(<<"Studio">>),
        description |-> PyStr("A minimal artist studio perched on a rocky outcrop, tuned to the horizon.")] >>

\* a dict with the keys of d and those of e, e's values winning
Update(d, e) ==
    [k \in DOMAIN d \cup DOMAIN e |-> IF k \in DOMAIN e THEN e[k] ELSE d[k]]

(***************************************************************************)
(* Request bodies after validation.  ProjectIn (lines 22-28) has title and *)
(* image required and four optional fields defaulting to None; ContactIn   *)
(* (lines 35-38) has three required fields.                                *)
(***************************************************************************)
\* a year int() reads as 2023 (a vertical tab, then digits of which one is
\* ARABIC-INDIC DIGIT TWO), and a year int() refuses
YearInputs ==
    { PyStr(<<"", "2", "0", "\\u0662", "3">>),
      PyStr(<<"N", "/", "A">>) }

ProjectIn ==
    { [title |-> "Pavilion", image |-> "pavilion.jpg", location |-> None,
       year |-> y, description |-> None, tags |-> None] : y \in YearInputs }

ContactIn ==
    { [name |-> "Ada", email |-> "ada@example.com", message |-> "hi"] }

(***************************************************************************)
(* State.                                                                  *)
(***************************************************************************)
VARIABLES
    db,           \* "None" or "connected": the handle imported on line 8
    store,        \* the collections "projects" and "contacts", in retrieval order
    nextId,       \* the number of the next ObjectId the store assigns
    clock,        \* the instant datetime.now returns
    requests,     \* requests begun so far
    pc,           \* where each request is in its handler
    op,           \* the handler each request runs
    input,        \* its validated body
    count,        \* ensure_seed_projects: the count read on line 60
    reads,        \* ensure_seed_projects: the instants read so far on lines 99-100
    stamped,      \* the stamped dicts about to be inserted
    inserted_id,  \* create_project, submit_contact: the str create_document returned
    created,      \* create_project, submit_contact: what find_one returned
    fetched,      \* list_projects: the list get_documents returned, as returned
    docs,         \* the fetched dicts as the handler leaves them
    result,       \* the value the handler returned
    status,       \* the outcome: "200", "201" or "500"
    seeded        \* history: the identifiers given to bootstrap records, per insert_many

vars == <<db, store, nextId, clock, requests, pc, op, input, count, reads, stamped,
          inserted_id, created, fetched, docs, result, status, seeded>>

\* documents that were in "projects" before the service started, the first
\* without a year
legacy ==
    << [_id |-> ObjectId(1), title |-> "Archive", image |-> "archive.jpg"],
       [_id |-> ObjectId(2), title |-> "Annex", image |-> "annex.jpg",
        year |-> PyStr(<<"2", "0", "1", "9">>)] >>

Init ==
    /\ db \in {"None", "connected"}
    /\ store \in IF db = "None"
                 THEN {[projects |-> <<>>, contacts |-> <<>>]}
                 ELSE {[projects |-> <<>>, contacts |-> <<>>],
                       [projects |-> legacy, contacts |-> <<>>]}
    /\ nextId = Len(store.projects) + 1
    /\ clock = 0
    /\ requests = 0
    /\ pc = [p \in Procs |-> "idle"]
    /\ op = [p \in Procs |-> "none"]
    /\ input = [p \in Procs |-> None]
    /\ count = [p \in Procs |-> -1]
    /\ reads = [p \in Procs |-> <<>>]
    /\ stamped = [p \in Procs |-> <<>>]
    /\ inserted_id = [p \in Procs |-> None]
    /\ created = [p \in Procs |-> None]
    /\ fetched = [p \in Procs |-> <<>>]
    /\ docs = [p \in Procs |-> <<>>]
    /\ result = [p \in Procs |-> None]
    /\ status = [p \in Procs |-> "none"]
    /\ seeded = <<>>

\* slot p is at rest
AtRest(p) == pc[p] \in {"idle", "done"}

\* a new request takes the first slot at rest, while the budget allows
Free(p) ==
    /\ AtRest(p)
    /\ requests < MaxRequests
    /\ \E i \in 1..Len(Slots) :
          Slots[i] = p /\ \A j \in 1..(i - 1) : ~AtRest(Slots[j])

\* the locals of slot p as a new request for handler h with body b finds them
Begin(p, h, b) ==
    /\ requests' = requests + 1
    /\ op' = [op EXCEPT ![p] = h]
    /\ input' = [input EXCEPT ![p] = b]
    /\ created' = [created EXCEPT ![p] = None]
    /\ fetched' = [fetched EXCEPT ![p] = <<>>]
    /\ docs' = [docs EXCEPT ![p] = <<>>]

(***************************************************************************)
(* The store's operations as the handlers use them.                        *)
(***************************************************************************)
\* the collection a creating handler writes to
CollectionOf(h) == IF h = "submit_contact" THEN "contacts" ELSE "projects"

\* insert_one / insert_many: each document gets the next identifier
WithIds(ds) ==
    [i \in 1..Len(ds) |-> Update(ds[i], [_id |-> ObjectId(nextId + i - 1)])]

\* find_one({"_id": oid}): the first match, or None
find_one(coll, oid) ==
    IF \E i \in 1..Len(coll) : coll[i]["_id"] = oid
    THEN coll[CHOOSE i \in 1..Len(coll) :
                /\ coll[i]["_id"] = oid
                /\ \A j \in 1..(i - 1) : coll[j]["_id"] # oid]
    ELSE None

\* get_documents(name): every document of the collection, an empty list
\* when the store is not connected
get_documents(name) == IF db = "None" THEN <<>> ELSE store[name]

(***************************************************************************)
(* ensure_seed_projects, lines 57-101: the count, the stamping of the      *)
(* records and the insert, between which other requests run.               *)
(* list_projects calls it first (line 146).                                *)
(***************************************************************************)
\* should_seed with the test left out, and with the test turned round
should_seed_never(c) == FALSE

should_seed_always(c) == TRUE

should_seed_inverted(c) == c # 0

\* line 61
should_seed(c) == c = 0

\* lines 98-100: two clock reads for each record, r the eight values read
stamp_seed(r) ==
    [i \in 1..Len(seed) |->
        Update(seed[i], [created_at |-> DateTime(r[2 * i - 1]),
                         updated_at |-> DateTime(r[2 * i])])]

\* n reads of the clock at instant t
RECURSIVE Read(_, _)
Read(n, t) == IF n = 0 THEN <<>> ELSE <<t>> \o Read(n - 1, t)

\* request p has read a zero count and is in the loop of lines 98-100
Stamping(p) == pc[p] = "seed"

\* The clock advances.  datetime.now is called 8 times in the loop of
\* lines 98-100, and other requests run and the clock advances between any
\* two of the calls.  A read changes nothing another request sees, so what
\* a request reads depends only on how many of its reads come before the
\* clock advances: each request in the loop has by then made any number of
\* the reads it has left, each of the instant that ends.
Tick ==
    /\ clock + 1 \in Instants
    /\ clock' = clock + 1
    /\ \E k \in [{p \in Procs : Stamping(p)} -> 0..(2 * Len(seed))] :
          /\ \A p \in DOMAIN k : k[p] <= 2 * Len(seed) - Len(reads[p])
          /\ reads' = [p \in Procs |->
                          IF p \in DOMAIN k THEN reads[p] \o Read(k[p], clock)
                          ELSE reads[p]]
    /\ UNCHANGED <<db, store, nextId, requests, pc, op, input, count, stamped,
                   inserted_id, created, fetched, docs, result, status, seeded>>

\* lines 145-146 and 58-61: the request arrives, the count is read and
\* tested; ensure_seed_projects returns unless the count is zero
ensure_seed_projects_count(p) ==
    /\ Free(p)
    /\ Begin(p, "list_projects", None)
    /\ IF db = "None"
       THEN /\ count' = [count EXCEPT ![p] = -1]
            /\ pc' = [pc EXCEPT ![p] = "get_documents"]
       ELSE /\ count' = [count EXCEPT ![p] = Len(store["projects"])]
            /\ pc' = [pc EXCEPT ![p] =
                         IF should_seed(Len(store["projects"]))
                         THEN "seed" ELSE "get_documents"]
    /\ inserted_id' = [inserted_id EXCEPT ![p] = None]
    /\ result' = [result EXCEPT ![p] = None]
    /\ status' = [status EXCEPT ![p] = "none"]
    /\ UNCHANGED <<db, store, nextId, clock, reads, stamped, seeded>>

\* lines 62-100: the records are built and the loop ends: the reads it
\* has left are of the present instant
ensure_seed_projects_stamp(p) ==
    /\ pc[p] = "seed"
    /\ LET r == reads[p] \o Read(2 * Len(seed) - Len(reads[p]), clock)
       IN  stamped' = [stamped EXCEPT ![p] = stamp_seed(r)]
    /\ pc' = [pc EXCEPT ![p] = "insert_many"]
    /\ reads' = [reads EXCEPT ![p] = <<>>]
    /\ UNCHANGED <<db, store, nextId, clock, requests, op, input, count,
                   inserted_id, created, fetched, docs, result, status, seeded>>

\* line 101, insert_many is called: the records get their identifiers and
\* the first of them is stored.  The store takes the records of a batch
\* one at a time, and other requests see the collection in between.
ensure_seed_projects_insert(p) ==
    /\ pc[p] = "insert_many"
    /\ LET new == WithIds(stamped[p])
       IN  /\ store' = [store EXCEPT !["projects"] = Append(@, Head(new))]
           /\ stamped' = [stamped EXCEPT ![p] = Tail(new)]
           /\ nextId' = nextId + Len(new)
           /\ seeded' = Append(seeded, {new[i]["_id"] : i \in 1..Len(new)})
    /\ pc' = [pc EXCEPT ![p] = "inserting"]
    /\ UNCHANGED <<db, clock, requests, op, input, count, reads, inserted_id,
                   created, fetched, docs, result, status>>

\* line 101, insert_many goes on: the next record of the batch is stored;
\* the call returns after the last
ensure_seed_projects_inserting(p) ==
    /\ pc[p] = "inserting"
    /\ store' = [store EXCEPT !["projects"] = Append(@, Head(stamped[p]))]
    /\ stamped' = [stamped EXCEPT ![p] = Tail(@)]
    /\ pc' = [pc EXCEPT ![p] =
                 IF Len(stamped[p]) = 1 THEN "get_documents" ELSE "inserting"]
    /\ UNCHANGED <<db, nextId, clock, requests, op, input, count, reads,
                   inserted_id, created, fetched, docs, result, status, seeded>>

(***************************************************************************)
(* list_projects, lines 147-153: fetch, sort, serialize, return.           *)
(***************************************************************************)
\* line 153, [serialize_doc(d) for d in docs]: the outcome of each call
RECURSIVE serialize_each(_)
serialize_each(s) ==
    IF Len(s) = 0 THEN <<>>
    ELSE <<serialize_doc(Head(s))>> \o serialize_each(Tail(s))

\* the dicts the calls returned, and the dicts of docs as the calls left them
RECURSIVE Returned(_)
Returned(outs) ==
    IF Len(outs) = 0 THEN <<>> ELSE <<Head(outs).ret>> \o Returned(Tail(outs))

RECURSIVE Arguments(_)
Arguments(outs) ==
    IF Len(outs) = 0 THEN <<>> ELSE <<Head(outs).arg>> \o Arguments(Tail(outs))

list_projects(p) ==
    /\ pc[p] = "get_documents"
    /\ \E got \in {get_documents("projects")} :
       \E out \in {serialize_each(sort_by_year(got))} :
          /\ fetched' = [fetched EXCEPT ![p] = got]
          /\ docs' = [docs EXCEPT ![p] = Arguments(out)]
          /\ result' = [result EXCEPT ![p] = Returned(out)]
    /\ status' = [status EXCEPT ![p] = "200"]
    /\ pc' = [pc EXCEPT ![p] = "done"]
    /\ UNCHANGED <<db, store, nextId, clock, requests, op, input, count, reads,
                   stamped, inserted_id, created, seeded>>

(***************************************************************************)
(* create_project (lines 156-160) and submit_contact (lines 163-167).      *)
(***************************************************************************)
\* create_document(name, data), the stamping: the body's fields, with
\* created_at and updated_at set to one instant
create_document_stamp(data) ==
    Update(data, [created_at |-> DateTime(clock), updated_at |-> DateTime(clock)])

\* create_document(name, data), the insert: the stamped dict is stored; the
\* identifier is returned as a str
create_document(p, name) ==
    LET new == WithIds(stamped[p])
    IN  /\ store' = [store EXCEPT ![name] = @ \o new]
        /\ nextId' = nextId + 1
        /\ inserted_id' = [inserted_id EXCEPT ![p] = StrObjectId(new[1]["_id"])]

\* lines 157-158 and 164-165: the request arrives and create_document
\* stamps the body; with no store the handler cannot get past db[name] and
\* ends in an error
create_stamp(p, h, data) ==
    /\ Free(p)
    /\ Begin(p, h, data)
    /\ count' = [count EXCEPT ![p] = -1]
    /\ result' = [result EXCEPT ![p] = None]
    /\ inserted_id' = [inserted_id EXCEPT ![p] = None]
    /\ IF db = "None"
       THEN /\ status' = [status EXCEPT ![p] = "500"]
            /\ pc' = [pc EXCEPT ![p] = "done"]
            /\ UNCHANGED stamped
       ELSE /\ stamped' = [stamped EXCEPT ![p] = <<create_document_stamp(data)>>]
            /\ status' = [status EXCEPT ![p] = "none"]
            /\ pc' = [pc EXCEPT ![p] = "insert_one"]
    /\ UNCHANGED <<db, store, nextId, clock, reads, seeded>>

\* lines 158 and 165: create_document inserts and returns; other requests
\* run and the clock advances between its stamping and its insert
create_insert(p, h, name) ==
    /\ pc[p] = "insert_one"
    /\ op[p] = h
    /\ create_document(p, name)
    /\ stamped' = [stamped EXCEPT ![p] = <<>>]
    /\ pc' = [pc EXCEPT ![p] = "find_one"]
    /\ UNCHANGED <<db, clock, requests, op, input, count, reads, created,
                   fetched, docs, result, status, seeded>>

\* lines 159-160 and 166-167: the point lookup and the serialized answer.
\* hit is whether the store finds the document it has just been given.
create_respond(p, h, name) ==
    /\ pc[p] = "find_one"
    /\ op[p] = h
    /\ \E hit \in BOOLEAN :
         LET got == IF hit
                    THEN find_one(store[name], ParseObjectId(inserted_id[p]))
                    ELSE None
             out == serialize_doc(got)
         IN  /\ created' = [created EXCEPT ![p] = got]
             /\ IF "exc" \in DOMAIN out
                THEN /\ status' = [status EXCEPT ![p] = "500"]
                     /\ UNCHANGED <<result, docs>>
                ELSE /\ status' = [status EXCEPT ![p] = "201"]
                     /\ result' = [result EXCEPT ![p] = out.ret]
                     /\ docs' = [docs EXCEPT ![p] = <<out.arg>>]
    /\ pc' = [pc EXCEPT ![p] = "done"]
    /\ UNCHANGED <<db, store, nextId, clock, requests, op, input, count, reads,
                   stamped, inserted_id, fetched, seeded>>

create_project_stamp(p) ==
    \E project \in ProjectIn : create_stamp(p, "create_project", project)

create_project_insert(p) == create_insert(p, "create_project", "projects")

create_project(p) == create_respond(p, "create_project", "projects")

submit_contact_stamp(p) ==
    \E data \in ContactIn : create_stamp(p, "submit_contact", data)

submit_contact_insert(p) == create_insert(p, "submit_contact", "contacts")

submit_contact(p) == create_respond(p, "submit_contact", "contacts")

(***************************************************************************)
(* Requests interleave at the store operations.                            *)
(***************************************************************************)
Step(p) ==
    \/ ensure_seed_projects_count(p)
    \/ ensure_seed_projects_stamp(p)
    \/ ensure_seed_projects_insert(p)
    \/ ensure_seed_projects_inserting(p)
    \/ list_projects(p)
    \/ create_project_stamp(p)
    \/ create_project_insert(p)
    \/ create_project(p)
    \/ submit_contact_stamp(p)
    \/ submit_contact_insert(p)
    \/ submit_contact(p)

Next == Tick \/ \E p \in Procs : Step(p)

Spec == Init /\ [][Next]_vars

\* One request at a time: a slot moves only while every other slot is at rest.
Quiet(p) == \A q \in Procs \ {p} : AtRest(q)

SeqNext ==
    \/ Tick
    \/ \E p \in Procs :
        \/ Quiet(p) /\ ensure_seed_projects_count(p)
        \/ Quiet(p) /\ ensure_seed_projects_stamp(p)
        \/ Quiet(p) /\ ensure_seed_projects_insert(p)
        \/ Quiet(p) /\ ensure_seed_projects_inserting(p)
        \/ Quiet(p) /\ list_projects(p)
        \/ Quiet(p) /\ create_project_stamp(p)
        \/ Quiet(p) /\ create_project_insert(p)
        \/ Quiet(p) /\ create_project(p)
        \/ Quiet(p) /\ submit_contact_stamp(p)
        \/ Quiet(p) /\ submit_contact_insert(p)
        \/ Quiet(p) /\ submit_contact(p)

SeqSpec == Init /\ [][SeqNext]_vars

(***************************************************************************)
(* Properties.                                                             *)
(***************************************************************************)
Listed(p) == pc[p] = "done" /\ op[p] = "list_projects"

Creates == {"create_project", "submit_contact"}

\* the identifiers of every bootstrap record inserted so far
SeededIds == UNION Range(seeded)

\* C1: with one request at a time, ensure_seed_projects turns an empty
\* "projects" collection into one of exactly 4 documents, every other call
\* leaves the store as it is, and the bootstrap records go in at most once.
C1_SeedsOnceSequentially ==
    [][\A p \in Procs :
          /\ ( /\ pc[p] \in {"idle", "done"}
                /\ op'[p] = "list_projects"
                /\ db = "connected"
                /\ pc'[p] = "get_documents" ) =>
                /\ Len(store["projects"]) > 0
                /\ store' = store /\ seeded' = seeded
          /\ (pc[p] \in {"idle", "done"} /\ pc'[p] = "seed") =>
                /\ Len(store["projects"]) = 0
                /\ store' = store /\ seeded' = seeded
          /\ (pc[p] = "seed" /\ pc'[p] = "insert_many") =>
                /\ Len(store["projects"]) = 0
                /\ store' = store /\ seeded' = seeded
          /\ (pc[p] = "insert_many" /\ pc'[p] = "inserting") =>
                /\ Len(store["projects"]) = 0
                /\ seeded = <<>>
                /\ Len(seeded') = 1
          /\ (pc[p] = "inserting" /\ pc'[p] = "get_documents") =>
                /\ Len(store'["projects"]) = 4
                /\ store'["contacts"] = store["contacts"]
                /\ Len(seeded') = 1]_vars

\* a listing that found the 4 bootstrap records of an earlier call in place
C1_Witness ==
    \E p \in Procs :
        /\ Listed(p)
        /\ count[p] = 4
        /\ Len(seeded) = 1
        /\ Len(store["projects"]) = 4

\* C2: requests interleave between the count, the stamping and the insert,
\* so a request that read a zero count calls insert_many on a collection
\* that holds bootstrap records of another request already; records are
\* duplicated only so, by an insert whose count read is stale.
C2_DuplicateSeedingByStaleCount ==
    [][\A p \in Procs :
          ( /\ pc[p] = "insert_many"
            /\ pc'[p] = "inserting"
            /\ Len(seeded) >= 1 ) =>
             /\ count[p] = 0
             /\ \E d \in Range(store["projects"]) : d["_id"] \in SeededIds
             /\ Len(seeded') = Len(seeded) + 1
             /\ Len(store'["projects"]) = Len(store["projects"]) + 1]_vars

\* the collection holds 8 bootstrap records
C2_Witness ==
    /\ Len(seeded) = 2
    /\ Cardinality(SeededIds) = 8
    /\ Cardinality({i \in 1..Len(store["projects"]) :
                      store["projects"][i]["_id"] \in SeededIds}) = 8

\* the year of d is absent or a str that int() accepts
YearParses(d) ==
    \/ "year" \notin DOMAIN d
    \/ d["year"].t = "str" /\ IntOfStr(d["year"].v).ok

\* where the document d of the sorted list stood in the fetched list got
FetchedAt(got, d) ==
    CHOOSE k \in 1..Len(got) : got[k]["_id"] = d["_id"]

\* request p returns from list_projects in this step
Lists(p) == pc[p] = "get_documents" /\ pc'[p] = "done"

\* C3: when every fetched year is absent or an integer-parseable str, the
\* list list_projects returns holds the fetched documents, each serialized,
\* in descending order of int(year), an absent year counting as 0, and
\* documents of equal year in the order they were fetched.
C3_SortedDescendingStable ==
    [][\A p \in Procs :
          Lists(p) =>
             \A got \in {fetched'[p]} : \A sorted \in {docs'[p]} :
             \A was \in {Keys(got)} : \A n \in {Len(got)} :
                (\A k \in 1..n : was[k].ok) =>
                   \A keys \in {Keys(sorted)} :
                      /\ status'[p] = "200"
                      /\ got = get_documents("projects")
                      /\ Len(result'[p]) = n
                      /\ Len(sorted) = n
                      /\ \A i \in 1..n : result'[p][i] = serialize_doc(sorted[i]).ret
                      /\ \A k \in 1..n : \E i \in 1..n : sorted[i] = got[k]
                      /\ \A i, j \in 1..n :
                            i < j =>
                               /\ keys[i].v >= keys[j].v
                               /\ keys[i].v = keys[j].v
                                     => FetchedAt(got, sorted[i]) < FetchedAt(got, sorted[j])]_vars

\* a listing that moved a document forward, past lower years, to stand
\* behind a document of the same year fetched before it
C3_Witness ==
    \E p \in Procs :
        /\ Listed(p)
        /\ \A k \in 1..Len(fetched[p]) : YearParses(fetched[p][k])
        /\ \E i, j \in 1..Len(result[p]) :
              /\ i < j
              /\ YearKey(result[p][i]).v = YearKey(result[p][j]).v
              /\ FetchedAt(fetched[p], docs[p][j]) > j

\* C4: when int(year) fails for a fetched document, list_projects still
\* answers 200, and the answer is the fetched documents, each serialized,
\* in the order they were fetched.
C4_UnsortedOnCoercionFailure ==
    [][\A p \in Procs :
          ( /\ Lists(p)
            /\ \E k \in 1..Len(fetched'[p]) : ~YearParses(fetched'[p][k]) ) =>
             /\ status'[p] = "200"
             /\ fetched'[p] = get_documents("projects")
             /\ Len(result'[p]) = Len(fetched'[p])
             /\ \A k \in 1..Len(fetched'[p]) :
                   result'[p][k] = serialize_doc(fetched'[p][k]).ret]_vars

\* a listing left unsorted although a later document has the greater year:
\* the year of another document is not a number
C4_Witness ==
    \E p \in Procs :
        /\ Listed(p)
        /\ \E k \in 1..Len(fetched[p]) : ~YearParses(fetched[p][k])
        /\ \E i, j \in 1..Len(result[p]) :
              /\ i < j
              /\ YearParses(result[p][i]) /\ YearParses(result[p][j])
              /\ YearKey(result[p][i]).v < YearKey(result[p][j]).v

\* d without its identifier field
WithoutId(d) == [k \in DOMAIN d \ {"_id"} |-> d[k]]

StoredDocs == Range(store["projects"]) \cup Range(store["contacts"])

\* serialize_doc(d) has no "_id" and its "id" is the str of d["_id"], from
\* which ObjectId gives d["_id"] back; d without "_id" is returned, not
\* refused, and without an "id"
SerializesWithId(d) ==
    LET r == serialize_doc(d)
        e == serialize_doc(WithoutId(d))
    IN  /\ "_id" \in DOMAIN d
        /\ "ret" \in DOMAIN r
        /\ "_id" \notin DOMAIN r.ret
        /\ "id" \in DOMAIN r.ret
        /\ r.ret["id"] = StrObjectId(d["_id"])
        /\ r.ret["id"].t = "str"
        /\ ParseObjectId(r.ret["id"]) = d["_id"]
        /\ "ret" \in DOMAIN e
        /\ "id" \notin DOMAIN e.ret
        /\ "_id" \notin DOMAIN e.ret

\* C5: for every document d the store holds at the start or takes in
\* later, serialize_doc(d) has no "_id" and its "id" is the str of
\* d["_id"], from which ObjectId gives d["_id"] back; the same document
\* without "_id" is returned, not refused, and without an "id".
C5_IdIsStringOfNativeId ==
    /\ \A d \in StoredDocs : SerializesWithId(d)
    /\ [][\A name \in {"projects", "contacts"} :
             \A i \in (Len(store[name]) + 1)..Len(store'[name]) :
                SerializesWithId(store'[name][i])]_vars

\* a handler has answered with the serialized form of a stored document
C5_Witness ==
    \E p \in Procs :
        /\ pc[p] = "done"
        /\ status[p] = "201"
        /\ created[p] \in StoredDocs
        /\ result[p] = serialize_doc(created[p]).ret

\* C6: the record create_project or submit_contact returns has as "id" the
\* non-empty str create_document gave for the identifier the store assigned
\* to the new document, which is stored under it with the body's fields;
\* the record has the body's fields unchanged, no "_id", and its
\* created_at and updated_at are strs, not datetimes.
C6_CreatedRecord ==
    \A p \in Procs :
        (pc[p] = "done" /\ op[p] \in Creates /\ status[p] = "201") =>
           LET r == result[p]
               mine == {d \in Range(store[CollectionOf(op[p])]) :
                           StrObjectId(d["_id"]) = r["id"]}
           IN  /\ "id" \in DOMAIN r
               /\ r["id"].t = "str"
               /\ Len(r["id"].v) > 0
               /\ r["id"] = inserted_id[p]
               /\ Cardinality(mine) = 1
               /\ \A d \in mine : \A k \in DOMAIN input[p] : d[k] = input[p][k]
               /\ \A k \in DOMAIN input[p] : k \in DOMAIN r /\ r[k] = input[p][k]
               /\ "_id" \notin DOMAIN r
               /\ \A k \in {"created_at", "updated_at"} :
                     k \in DOMAIN r => r[k].t = "str"
               /\ DOMAIN r = DOMAIN input[p] \cup {"id", "created_at", "updated_at"}

\* submit_contact has answered 201 for Ada's message
C6_Witness ==
    \E p \in Procs :
        /\ pc[p] = "done"
        /\ op[p] = "submit_contact"
        /\ status[p] = "201"
        /\ result[p]["name"] = "Ada"

\* C7: when the lookup after the insert finds nothing, the handler ends at
\* once with the internal error 500 and no record; it inserts nothing more
\* and does not look up again.
C7_LookupMissIsInternalError ==
    [][\A p \in Procs :
          (pc[p] = "find_one" /\ pc'[p] # "find_one" /\ created'[p] = None) =>
             /\ pc'[p] = "done"
             /\ status'[p] = "500"
             /\ result'[p] = None
             /\ store' = store
             /\ requests' = requests]_vars

\* a creation ended in 500 with its document stored and not found
C7_Witness ==
    \E p \in Procs :
        /\ pc[p] = "done"
        /\ op[p] = "create_project"
        /\ status[p] = "500"
        /\ created[p] = None
        /\ \E d \in Range(store["projects"]) : StrObjectId(d["_id"]) = inserted_id[p]

\* C8: ensure_seed_projects goes on to insert_many exactly when the store
\* is connected and the count it read is zero; no other step of it changes
\* the store, and insert_many appends the 4 bootstrap records to
\* "projects", one at a time; "contacts" is never touched, and without a
\* store the count is not even read.
C8_SeedsIffCountZero ==
    [][\A p \in Procs :
          ( /\ op'[p] = "list_projects"
            /\ (pc'[p] # pc[p] \/ stamped'[p] # stamped[p])
            /\ pc'[p] \in {"seed", "insert_many", "inserting", "get_documents"} ) =>
             /\ store'["contacts"] = store["contacts"]
             /\ (pc'[p] = "insert_many") <=>
                   (db = "connected" /\ pc[p] = "seed" /\ count[p] = 0)
             /\ (store' # store) <=> (pc[p] \in {"insert_many", "inserting"})
             /\ (pc[p] = "insert_many") =>
                   Len(stamped[p]) = Len(seed) /\ pc'[p] = "inserting"
             /\ (pc[p] \in {"insert_many", "inserting"}) =>
                   /\ db = "connected" /\ count[p] = 0
                   /\ store'["projects"] =
                         Append(store["projects"],
                                store'["projects"][Len(store'["projects"])])
                   /\ store'["projects"][Len(store'["projects"])]["_id"]
                         \in SeededIds'
                   /\ Len(stamped'[p]) = Len(stamped[p]) - 1
                   /\ (pc'[p] = "get_documents") <=> (Len(stamped'[p]) = 0)
             /\ db = "None" => pc'[p] = "get_documents" /\ count'[p] = -1
             /\ pc[p] \in {"idle", "done"} =>
                   /\ db = "connected" => count'[p] = Len(store["projects"])
                   /\ (pc'[p] = "seed") <=>
                         (db = "connected" /\ Len(store["projects"]) = 0)]_vars

\* a listing that found only a project created before it, and seeded nothing
C8_Witness ==
    \E p \in Procs :
        /\ op[p] = "list_projects"
        /\ pc[p] = "get_documents"
        /\ count[p] = 1
        /\ seeded = <<>>
        /\ store["projects"][1]["title"] = "Pavilion"

\* C9: every bootstrap record is stored with created_at equal to updated_at.
C9_SeedTimestampsEqual ==
    \A d \in Range(store["projects"]) :
        d["_id"] \in SeededIds => d["created_at"] = d["updated_at"]

\* C10: no step removes or changes a stored document, and the dicts a
\* handler fetched and serialized are, when it returns, still the stored
\* documents.
C10_StoredDocumentsKept ==
    [][ /\ \A name \in {"projects", "contacts"} :
             /\ Len(store'[name]) >= Len(store[name])
             /\ SubSeq(store'[name], 1, Len(store[name])) = store[name]
        /\ \A p \in Procs :
             (pc'[p] = "done" /\ status'[p] \in {"200", "201"}) =>
                \A i \in 1..Len(docs'[p]) :
                   docs'[p][i] \in Range(store'[CollectionOf(op'[p])]) ]_vars

\* a listing has returned serialized bootstrap records while a contact is stored
C10_Witness ==
    \E p \in Procs :
        /\ Listed(p)
        /\ Len(docs[p]) >= 4
        /\ Len(result[p]) = Len(docs[p])
        /\ "id" \in DOMAIN result[p][1]
        /\ Len(store["contacts"]) > 0

====
